---- MODULE Spec2Model ----
(***************************************************************************)
(* pub::Application (src/projects/base/publisher/application.cpp):         *)
(* three locked FIFO queues fed by producer contexts, the WorkerThread     *)
(* dispatch loop, the Start/Stop lifecycle and the _streams registry       *)
(* mutated by OnCreateStream / OnDeleteStream.                             *)
(***************************************************************************)
EXTENDS Integers, Sequences, FiniteSets, TLC

\* ---- bounds of the model ------------------------------------------------
MaxItems == 2      \* submit calls (items ever appended, over the three queues)
MaxStreams == 2    \* Stream objects the creation hook ever returns
MaxStarts == 2     \* calls to Start()

\* ---- execution contexts and identifiers ---------------------------------
Producers == {"p1", "p2"}          \* router / ice-port threads calling submit
Callers == {"c1", "c2"}            \* contexts calling the lifecycle operations
Queues == {"video", "audio", "packet"}
StreamIds == {7, 8}                \* info->GetId() values in use
NoStream == 0                      \* nullptr: GetStream() found nothing
NoOne == "nobody"                  \* a mutex nobody holds

VARIABLES
    flag,        \* _stop_thread_flag
    thr,         \* _worker_thread.joinable()
    wpc,         \* position of the WorkerThread execution context
    whand,       \* item the worker popped and is routing (0: none)
    wstream,     \* Stream handle the worker's GetStream() returned
    wdrained,    \* history: per queue, items the worker removed since its last Wait()
    sem,         \* _queue_event: pending notifications
    q,           \* the three std::queue's, as sequences of item numbers
    qlock,       \* the three queue guards: holder or NoOne
    ppc, pitem,  \* producer: position, and the item it is submitting (0: none)
    nitems,      \* items appended so far
    dest,        \* item -> stream id it is addressed to (NoStream for packets)
    appended,    \* history: per queue, items in the order they were appended
    dequeued,    \* history: per queue, items in the order the worker popped them
    streams,     \* _streams: stream id -> Stream object or NoStream
    regLock,     \* _stream_map_mutex held exclusively by: caller or NoOne
    nobjs,       \* Stream objects constructed so far (objects are 1..nobjs)
    stopped,     \* Stream objects on which Stop() has been invoked
    delivered,   \* <<Stream object, item>>: SendVideoFrame/SendAudioFrame calls
    received,    \* items handed to Session::OnPacketReceived
    dropped,     \* frames discarded because GetStream() found no stream
    cpc, cop, cid, cobj, cres, ceff,   \* lifecycle caller: position, operation,
                 \* stream id argument, Stream in hand, result, effects so far
    cmark,       \* history: the items already submitted when the caller's Stop()
                 \* was called on a running worker
    created,     \* history: id -> Streams of successful creates since the last successful delete
    nstarts,     \* Start() calls so far
    nworkers,    \* live worker execution contexts
    aborted      \* "no", or the call in which std::terminate() ended the process

wvars == <<wpc, whand, wstream, wdrained>>
qvars == <<q, qlock, nitems, dest, appended, dequeued>>
pvars == <<ppc, pitem>>
rvars == <<streams, regLock, nobjs, stopped, created>>
cvars == <<cpc, cop, cid, cobj, cres, ceff, cmark>>
lvars == <<flag, thr, nstarts, nworkers, aborted>>
dvars == <<delivered, received, dropped>>
vars == <<wvars, qvars, pvars, rvars, cvars, lvars, dvars, sem>>

\* ---- state after construction (application.cpp:8-13) --------------------
Init ==
    /\ flag = FALSE
    /\ thr = FALSE
    /\ wpc = "none"
    /\ whand = 0
    /\ wstream = NoStream
    /\ wdrained = [n \in Queues |-> 0]
    /\ sem = 0
    /\ q = [n \in Queues |-> <<>>]
    /\ qlock = [n \in Queues |-> NoOne]
    /\ ppc = [p \in Producers |-> "idle"]
    /\ pitem = [p \in Producers |-> 0]
    /\ nitems = 0
    /\ dest = <<>>
    /\ appended = [n \in Queues |-> <<>>]
    /\ dequeued = [n \in Queues |-> <<>>]
    /\ streams = [i \in StreamIds |-> NoStream]
    /\ regLock = NoOne
    /\ nobjs = 0
    /\ stopped = {}
    /\ delivered = {}
    /\ received = {}
    /\ dropped = {}
    /\ cpc = [c \in Callers |-> "idle"]
    /\ cop = [c \in Callers |-> "none"]
    /\ cid = [c \in Callers |-> NoStream]
    /\ cobj = [c \in Callers |-> NoStream]
    /\ cres = [c \in Callers |-> "none"]
    /\ ceff = [c \in Callers |-> {}]
    /\ cmark = [c \in Callers |-> {}]
    /\ created = [i \in StreamIds |-> {}]
    /\ nstarts = 0
    /\ nworkers = 0
    /\ aborted = "no"

terminated == aborted # "no"

\* ---- std::queue ---------------------------------------------------------
Push(s, x) == Append(s, x)          \* queue.push()
FrontIsBack(s) == s[Len(s)]         \* slip: back() taken for front()
Front(s) == Head(s)                 \* queue.front()
PopAll(s) == <<>>                   \* slip: the queue is emptied, not popped
Pop(s) == Tail(s)                   \* queue.pop()

\* ---- ov::Semaphore _queue_event -----------------------------------------
Notify(n) == n + 1                  \* one more pending notification
CanWait(n) == n > 0                 \* Wait() returns only when one is pending
Wait(n) == n - 1                    \* and consumes it

\* ---- the items and where they are ----------------------------------------
Items == 1..nitems
SeqItems(s) == {s[k] : k \in 1..Len(s)}
QueueOf(i) == CHOOSE n \in Queues : i \in SeqItems(appended[n])
InQueue(i) == \E n \in Queues : i \in SeqItems(q[n])
Dequeued(i) == \E n \in Queues : i \in SeqItems(dequeued[n])
InHand(i) == whand = i
Sent(i) == \E s \in 1..nobjs : <<s, i>> \in delivered
Routed(i) == Sent(i) \/ i \in received \/ i \in dropped
\* items whose submit call has returned
Submitted == {i \in Items : \A p \in Producers : pitem[p] # i}

\* slip: the event is signalled inside the critical section, with the push
SubmitPushSignals(p, n, d) ==
    /\ ~terminated
    /\ ppc[p] = "idle"
    /\ nitems < MaxItems
    /\ qlock[n] = NoOne
    /\ (n = "packet") = (d = NoStream)
    /\ nitems' = nitems + 1
    /\ dest' = Append(dest, d)
    /\ q' = [q EXCEPT ![n] = Push(@, nitems + 1)]
    /\ appended' = [appended EXCEPT ![n] = Append(@, nitems + 1)]
    /\ qlock' = [qlock EXCEPT ![n] = p]
    /\ sem' = Notify(sem)
    /\ ppc' = [ppc EXCEPT ![p] = "pushed"]
    /\ pitem' = [pitem EXCEPT ![p] = nitems + 1]
    /\ UNCHANGED <<dequeued, wvars, rvars, cvars, lvars, dvars>>

\* ---- submit calls: OnSendVideoFrame / OnSendAudioFrame / PushIncomingPacket
\* lock the queue guard and push (application.cpp:120-121, 136-138, 152-153).
\* The calls dereference stream and media_packet (lines 122, 139), so a queued
\* item always carries both and the null tests of lines 262 and 270 pass.
SubmitPush(p, n, d) ==
    /\ ~terminated
    /\ ppc[p] = "idle"
    /\ nitems < MaxItems
    /\ qlock[n] = NoOne
    /\ (n = "packet") = (d = NoStream)
    /\ nitems' = nitems + 1
    /\ dest' = Append(dest, d)
    /\ q' = [q EXCEPT ![n] = Push(@, nitems + 1)]
    /\ appended' = [appended EXCEPT ![n] = Append(@, nitems + 1)]
    /\ qlock' = [qlock EXCEPT ![n] = p]
    /\ ppc' = [ppc EXCEPT ![p] = "pushed"]
    /\ pitem' = [pitem EXCEPT ![p] = nitems + 1]
    /\ UNCHANGED <<dequeued, wvars, rvars, cvars, lvars, dvars, sem>>

\* lock.unlock() (application.cpp:123, 140, 154)
SubmitUnlock(p) ==
    /\ ~terminated
    /\ ppc[p] = "pushed"
    /\ qlock' = [qlock EXCEPT ![QueueOf(pitem[p])] = NoOne]
    /\ ppc' = [ppc EXCEPT ![p] = "notify"]
    /\ UNCHANGED <<q, nitems, dest, appended, dequeued, pitem, wvars, rvars, cvars, lvars, dvars, sem>>

\* slip: the submit call returns without signalling the event
SubmitNoNotify(p) ==
    /\ ~terminated
    /\ ppc[p] = "notify"
    /\ ppc' = [ppc EXCEPT ![p] = "idle"]
    /\ pitem' = [pitem EXCEPT ![p] = 0]
    /\ UNCHANGED <<qvars, wvars, rvars, cvars, lvars, dvars, sem>>

\* _queue_event.Notify(); return true (application.cpp:124-126, 141-143, 156-158)
SubmitNotify(p) ==
    /\ ~terminated
    /\ ppc[p] = "notify"
    /\ sem' = Notify(sem)
    /\ ppc' = [ppc EXCEPT ![p] = "idle"]
    /\ pitem' = [pitem EXCEPT ![p] = 0]
    /\ UNCHANGED <<qvars, wvars, rvars, cvars, lvars, dvars>>

\* ---- WorkerThread (application.cpp:241-282) -----------------------------
WorkerLive == wpc \notin {"none", "exited"}

\* while (!_stop_thread_flag), then the stopwatch test of line 248
WorkerCheck ==
    /\ ~terminated
    /\ wpc = "check"
    /\ IF flag
       THEN /\ wpc' = "exited"
            /\ nworkers' = nworkers - 1
            /\ wdrained' = [n \in Queues |-> 0]
       ELSE /\ wpc' \in {"stat", "wait"}
            /\ UNCHANGED <<nworkers, wdrained>>
    /\ UNCHANGED <<whand, wstream, qvars, pvars, rvars, cvars, dvars, sem,
                   flag, thr, nstarts, aborted>>

\* the queue-depth log line (application.cpp:250-254): the three size() reads
\* take no guard, whoever holds one; the values go to the log line only and
\* nothing of the state depends on them
WorkerStat ==
    /\ ~terminated
    /\ wpc = "stat"
    /\ wpc' = "wait"
    /\ UNCHANGED <<whand, wstream, wdrained, qvars, pvars, rvars, cvars, lvars, dvars, sem>>

\* slip: waking up discards every pending notification, not one
WorkerWaitClears ==
    /\ ~terminated
    /\ wpc = "wait"
    /\ CanWait(sem)
    /\ sem' = 0
    /\ wpc' = "popV"
    /\ wdrained' = [n \in Queues |-> 0]
    /\ UNCHANGED <<whand, wstream, qvars, pvars, rvars, cvars, lvars, dvars>>

\* _queue_event.Wait() (application.cpp:257)
WorkerWait ==
    /\ ~terminated
    /\ wpc = "wait"
    /\ CanWait(sem)
    /\ sem' = Wait(sem)
    /\ wpc' = "popV"
    /\ wdrained' = [n \in Queues |-> 0]
    /\ UNCHANGED <<whand, wstream, qvars, pvars, rvars, cvars, lvars, dvars>>

PopPc(n) == CASE n = "video" -> "popV" [] n = "audio" -> "popA" [] OTHER -> "popP"
GotPc(n) == CASE n = "video" -> "getV" [] n = "audio" -> "getA" [] OTHER -> "recvP"
AfterPcRestart(n) == "check"       \* slip: the iteration ends after the first queue it polled
AfterPc(n) == CASE n = "video" -> "popA" [] n = "audio" -> "popP" [] OTHER -> "check"

\* PopVideoStreamData / PopAudioStreamData / PopIncomingPacket (application.cpp:188-229)
WorkerPop(n) ==
    /\ ~terminated
    /\ wpc = PopPc(n)
    /\ qlock[n] = NoOne
    /\ IF q[n] = <<>>
       THEN /\ wpc' = AfterPc(n)
            /\ UNCHANGED <<whand, q, dequeued, wdrained>>
       ELSE /\ whand' = Front(q[n])
            /\ q' = [q EXCEPT ![n] = Pop(@)]
            /\ wdrained' = [wdrained EXCEPT ![n] = @ + Len(q[n]) - Len(Pop(q[n]))]
            /\ dequeued' = [dequeued EXCEPT ![n] = Append(@, Front(q[n]))]
            /\ wpc' = GotPc(n)
    /\ UNCHANGED <<wstream, qlock, nitems, dest, appended, pvars, rvars, cvars, lvars, dvars, sem>>

\* GetStream(uint32_t) (application.cpp:161-171)
GetStream(id) == streams[id]

\* slip: a frame whose stream is not found is put back for a retry
WorkerLookupRetry(n) ==
    /\ ~terminated
    /\ n \in {"video", "audio"}
    /\ wpc = GotPc(n)
    /\ regLock = NoOne
    /\ IF GetStream(dest[whand]) = NoStream
       THEN /\ wpc' = AfterPc(n)
            /\ q' = [q EXCEPT ![n] = Push(@, whand)]
            /\ whand' = 0
            /\ UNCHANGED <<wstream, dropped>>
       ELSE /\ wstream' = GetStream(dest[whand])
            /\ wpc' = IF n = "video" THEN "sendV" ELSE "sendA"
            /\ UNCHANGED <<whand, dropped, q>>
    /\ UNCHANGED <<wdrained, delivered, received, qlock, nitems, dest, appended, dequeued,
                   pvars, rvars, cvars, lvars, sem>>

\* SendVideoFrame / SendAudioFrame up to the lookup (application.cpp:287-292, 300-305)
WorkerLookup(n) ==
    /\ ~terminated
    /\ n \in {"video", "audio"}
    /\ wpc = GotPc(n)
    /\ regLock = NoOne
    /\ IF GetStream(dest[whand]) = NoStream
       THEN /\ wpc' = AfterPc(n)
            /\ dropped' = dropped \cup {whand}
            /\ whand' = 0
            /\ UNCHANGED wstream
       ELSE /\ wstream' = GetStream(dest[whand])
            /\ wpc' = IF n = "video" THEN "sendV" ELSE "sendA"
            /\ UNCHANGED <<whand, dropped>>
    /\ UNCHANGED <<wdrained, delivered, received, qvars, pvars, rvars, cvars, lvars, sem>>

\* stream->SendVideoFrame / stream->SendAudioFrame (application.cpp:294, 307)
WorkerSend(n) ==
    /\ ~terminated
    /\ n \in {"video", "audio"}
    /\ wpc = (IF n = "video" THEN "sendV" ELSE "sendA")
    /\ delivered' = delivered \cup {<<wstream, whand>>}
    /\ whand' = 0
    /\ wstream' = NoStream
    /\ wpc' = AfterPc(n)
    /\ UNCHANGED <<wdrained, received, dropped, qvars, pvars, rvars, cvars, lvars, sem>>

\* OnPacketReceived (application.cpp:310-316)
WorkerPacket ==
    /\ ~terminated
    /\ wpc = "recvP"
    /\ received' = received \cup {whand}
    /\ whand' = 0
    /\ wpc' = "check"
    /\ UNCHANGED <<wdrained, wstream, delivered, dropped, qvars, pvars, rvars, cvars, lvars, sem>>

\* ---- lifecycle callers ---------------------------------------------------
Idle(c) == ~terminated /\ cpc[c] = "idle"

\* std::terminate(): the process and all of its state are gone; only the
\* call that caused it and the number n of worker contexts alive then are kept
Terminate(why, n) ==
    /\ aborted' = why
    /\ nworkers' = n
    /\ flag' = FALSE /\ thr' = FALSE /\ nstarts' = 0
    /\ wpc' = "none" /\ whand' = 0 /\ wstream' = NoStream /\ sem' = 0
    /\ wdrained' = [n2 \in Queues |-> 0]
    /\ q' = [n2 \in Queues |-> <<>>]
    /\ qlock' = [n2 \in Queues |-> NoOne]
    /\ ppc' = [p \in Producers |-> "idle"]
    /\ pitem' = [p \in Producers |-> 0]
    /\ nitems' = 0 /\ dest' = <<>>
    /\ appended' = [n2 \in Queues |-> <<>>]
    /\ dequeued' = [n2 \in Queues |-> <<>>]
    /\ streams' = [i \in StreamIds |-> NoStream]
    /\ regLock' = NoOne /\ nobjs' = 0 /\ stopped' = {}
    /\ delivered' = {} /\ received' = {} /\ dropped' = {}
    /\ cpc' = [c \in Callers |-> "idle"]
    /\ cop' = [c \in Callers |-> "none"]
    /\ cid' = [c \in Callers |-> NoStream]
    /\ cobj' = [c \in Callers |-> NoStream]
    /\ cres' = [c \in Callers |-> "none"]
    /\ ceff' = [c \in Callers |-> {}]
    /\ cmark' = [c \in Callers |-> {}]
    /\ created' = [i \in StreamIds |-> {}]

\* the call of c returns r
Ret(c, r) ==
    /\ cpc' = [cpc EXCEPT ![c] = "ret"]
    /\ cres' = [cres EXCEPT ![c] = r]

\* the caller takes the result and is free for its next call
Return(c) ==
    /\ ~terminated
    /\ cpc[c] = "ret"
    /\ cpc' = [cpc EXCEPT ![c] = "idle"]
    /\ cop' = [cop EXCEPT ![c] = "none"]
    /\ cid' = [cid EXCEPT ![c] = NoStream]
    /\ cobj' = [cobj EXCEPT ![c] = NoStream]
    /\ cres' = [cres EXCEPT ![c] = "none"]
    /\ ceff' = [ceff EXCEPT ![c] = {}]
    /\ cmark' = [cmark EXCEPT ![c] = {}]
    /\ UNCHANGED <<wvars, qvars, pvars, rvars, lvars, dvars, sem>>

\* slip: Start() spawns the worker without clearing the stop request
StartKeepsFlag(c) ==
    /\ Idle(c)
    /\ nstarts < MaxStarts
    /\ IF thr
       THEN Terminate("Start", nworkers + 1)
       ELSE /\ nstarts' = nstarts + 1
            /\ nworkers' = nworkers + 1
            /\ thr' = TRUE
            /\ wpc' = "check"
            /\ cop' = [cop EXCEPT ![c] = "start"]
            /\ Ret(c, "ok")
            /\ UNCHANGED <<flag, aborted, whand, wstream, wdrained, qvars, pvars, rvars, cid, cobj, ceff,
                           dvars, sem, cmark>>

\* Start() (application.cpp:35-44). Move-assigning to a std::thread that is
\* still joinable calls std::terminate(), after the new thread was constructed.
Start(c) ==
    /\ Idle(c)
    /\ nstarts < MaxStarts
    /\ IF thr
       THEN Terminate("Start", nworkers + 1)
       ELSE /\ nstarts' = nstarts + 1
            /\ flag' = FALSE
            /\ nworkers' = nworkers + 1
            /\ thr' = TRUE
            /\ wpc' = "check"
            /\ cop' = [cop EXCEPT ![c] = "start"]
            /\ Ret(c, "ok")
            /\ UNCHANGED <<aborted, whand, wstream, wdrained, qvars, pvars, rvars, cid, cobj, ceff,
                           dvars, sem, cmark>>

\* Stop(): if (_stop_thread_flag == true) return true (application.cpp:48-51)
StopCheck(c) ==
    /\ Idle(c)
    /\ cop' = [cop EXCEPT ![c] = "stop"]
    /\ cmark' = [cmark EXCEPT ![c] = IF WorkerLive THEN Submitted ELSE {}]
    /\ IF flag
       THEN Ret(c, "ok")
       ELSE /\ cpc' = [cpc EXCEPT ![c] = "stop_set"]
            /\ UNCHANGED cres
    /\ UNCHANGED <<wvars, qvars, pvars, rvars, cid, cobj, ceff, lvars, dvars, sem>>

\* _stop_thread_flag = true (application.cpp:52)
StopSet(c) ==
    /\ ~terminated
    /\ cpc[c] = "stop_set"
    /\ flag' = TRUE
    /\ cpc' = [cpc EXCEPT ![c] = "stop_notify"]
    /\ UNCHANGED <<wvars, qvars, pvars, rvars, cop, cid, cobj, cres, ceff,
                   thr, nstarts, nworkers, aborted, dvars, sem, cmark>>

\* slip: Stop() sets the flag and joins without waking the loop
StopNoNotify(c) ==
    /\ ~terminated
    /\ cpc[c] = "stop_notify"
    /\ cpc' = [cpc EXCEPT ![c] = "stop_joinable"]
    /\ UNCHANGED <<wvars, qvars, pvars, rvars, cop, cid, cobj, cres, ceff, cmark,
                   lvars, dvars, sem>>

\* _queue_event.Notify() (application.cpp:53)
StopNotify(c) ==
    /\ ~terminated
    /\ cpc[c] = "stop_notify"
    /\ sem' = Notify(sem)
    /\ cpc' = [cpc EXCEPT ![c] = "stop_joinable"]
    /\ UNCHANGED <<wvars, qvars, pvars, rvars, cop, cid, cobj, cres, ceff, lvars, dvars, cmark>>

\* if (_worker_thread.joinable()) (application.cpp:55)
StopJoinable(c) ==
    /\ ~terminated
    /\ cpc[c] = "stop_joinable"
    /\ IF thr
       THEN /\ cpc' = [cpc EXCEPT ![c] = "stop_join"]
            /\ UNCHANGED cres
       ELSE Ret(c, "ok")
    /\ UNCHANGED <<wvars, qvars, pvars, rvars, cop, cid, cobj, ceff, lvars, dvars, sem, cmark>>

\* _worker_thread.join() returns once the worker has exited; return true
\* (application.cpp:57-62). A join() on a thread another caller has joined in
\* the meantime is undefined: it returns, or throws and ends the process.
StopJoin(c) ==
    /\ ~terminated
    /\ cpc[c] = "stop_join"
    /\ wpc = "exited"
    /\ \/ /\ thr' = FALSE
          /\ Ret(c, "ok")
          /\ UNCHANGED <<wvars, qvars, pvars, rvars, cop, cid, cobj, ceff,
                         flag, nstarts, nworkers, aborted, dvars, sem, cmark>>
       \/ /\ ~thr
          /\ Terminate("join", nworkers)

\* OnCreateStream: the CreateStream hook (application.cpp:70-77)
CreateHook(c, id) ==
    /\ Idle(c)
    /\ cop' = [cop EXCEPT ![c] = "create"]
    /\ cid' = [cid EXCEPT ![c] = id]
    /\ ceff' = [ceff EXCEPT ![c] = {"hook"}]
    /\ \/ /\ Ret(c, "fail")
          /\ UNCHANGED <<cobj, nobjs>>
       \/ /\ nobjs < MaxStreams
          /\ nobjs' = nobjs + 1
          /\ cobj' = [cobj EXCEPT ![c] = nobjs + 1]
          /\ cpc' = [cpc EXCEPT ![c] = "create_insert"]
          /\ UNCHANGED cres
    /\ UNCHANGED <<wvars, qvars, pvars, streams, regLock, stopped, created, lvars, dvars, sem, cmark>>

\* OnCreateStream: lock, _streams[id] = stream, return true (application.cpp:79-82)
CreateInsert(c) ==
    /\ ~terminated
    /\ cpc[c] = "create_insert"
    /\ regLock = NoOne
    /\ streams' = [streams EXCEPT ![cid[c]] = cobj[c]]
    /\ created' = [created EXCEPT ![cid[c]] = @ \cup {cobj[c]}]
    /\ ceff' = [ceff EXCEPT ![c] = @ \cup {"write"}]
    /\ cobj' = [cobj EXCEPT ![c] = NoStream]
    /\ Ret(c, "ok")
    /\ UNCHANGED <<wvars, qvars, pvars, regLock, nobjs, stopped, cop, cid, lvars, dvars, sem, cmark>>

\* slip: the entry is erased as soon as it is found, before the hook has agreed
DeleteFindErase(c, id) ==
    /\ Idle(c)
    /\ regLock = NoOne
    /\ cop' = [cop EXCEPT ![c] = "delete"]
    /\ cid' = [cid EXCEPT ![c] = id]
    /\ IF streams[id] = NoStream
       THEN /\ Ret(c, "fail")
            /\ UNCHANGED <<cobj, streams, ceff>>
       ELSE /\ cobj' = [cobj EXCEPT ![c] = streams[id]]
            /\ streams' = [streams EXCEPT ![id] = NoStream]
            /\ ceff' = [ceff EXCEPT ![c] = @ \cup {"write"}]
            /\ cpc' = [cpc EXCEPT ![c] = "delete_hook"]
            /\ UNCHANGED cres
    /\ UNCHANGED <<wvars, qvars, pvars, regLock, nobjs, stopped, created, cmark,
                   lvars, dvars, sem>>

\* OnDeleteStream: lock, find, copy the handle, unlock (application.cpp:87-98)
DeleteFind(c, id) ==
    /\ Idle(c)
    /\ regLock = NoOne
    /\ cop' = [cop EXCEPT ![c] = "delete"]
    /\ cid' = [cid EXCEPT ![c] = id]
    /\ IF streams[id] = NoStream
       THEN /\ Ret(c, "fail")
            /\ UNCHANGED cobj
       ELSE /\ cobj' = [cobj EXCEPT ![c] = streams[id]]
            /\ cpc' = [cpc EXCEPT ![c] = "delete_hook"]
            /\ UNCHANGED cres
    /\ UNCHANGED <<wvars, qvars, pvars, rvars, ceff, lvars, dvars, sem, cmark>>

\* OnDeleteStream: the DeleteStream hook (application.cpp:101-104)
DeleteHook(c) ==
    /\ ~terminated
    /\ cpc[c] = "delete_hook"
    /\ ceff' = [ceff EXCEPT ![c] = @ \cup {"hook"}]
    /\ \/ /\ Ret(c, "fail")
          /\ cobj' = [cobj EXCEPT ![c] = NoStream]
       \/ /\ cpc' = [cpc EXCEPT ![c] = "delete_erase"]
          /\ UNCHANGED <<cres, cobj>>
    /\ UNCHANGED <<wvars, qvars, pvars, rvars, cop, cid, lvars, dvars, sem, cmark>>

\* slip: the lock is retaken but the entry is left in the map
DeleteEraseSkips(c) ==
    /\ ~terminated
    /\ cpc[c] = "delete_erase"
    /\ regLock = NoOne
    /\ regLock' = c
    /\ ceff' = [ceff EXCEPT ![c] = @ \cup {"write"}]
    /\ cpc' = [cpc EXCEPT ![c] = "delete_stop"]
    /\ UNCHANGED <<wvars, qvars, pvars, streams, nobjs, stopped, created, cop, cid, cobj, cres,
                   lvars, dvars, sem, cmark>>

\* OnDeleteStream: lock.lock(); _streams.erase(id) (application.cpp:106-107)
DeleteErase(c) ==
    /\ ~terminated
    /\ cpc[c] = "delete_erase"
    /\ regLock = NoOne
    /\ regLock' = c
    /\ streams' = [streams EXCEPT ![cid[c]] = NoStream]
    /\ ceff' = [ceff EXCEPT ![c] = @ \cup {"write"}]
    /\ cpc' = [cpc EXCEPT ![c] = "delete_stop"]
    /\ UNCHANGED <<wvars, qvars, pvars, nobjs, stopped, created, cop, cid, cobj, cres,
                   lvars, dvars, sem, cmark>>

\* OnDeleteStream: stream->Stop(); return true, which releases the lock
\* (application.cpp:108-111)
DeleteStop(c) ==
    /\ ~terminated
    /\ cpc[c] = "delete_stop"
    /\ stopped' = stopped \cup {cobj[c]}
    /\ regLock' = NoOne
    /\ created' = [created EXCEPT ![cid[c]] = {}]
    /\ ceff' = [ceff EXCEPT ![c] = @ \cup {"stop"}]
    /\ cobj' = [cobj EXCEPT ![c] = NoStream]
    /\ Ret(c, "ok")
    /\ UNCHANGED <<wvars, qvars, pvars, streams, nobjs, cop, cid, lvars, dvars, sem, cmark>>

\* a caller's GetStream(id) (application.cpp:161-171)
GetStreamCall(c, id) ==
    /\ Idle(c)
    /\ regLock = NoOne
    /\ cop' = [cop EXCEPT ![c] = "get"]
    /\ cid' = [cid EXCEPT ![c] = id]
    /\ cobj' = [cobj EXCEPT ![c] = GetStream(id)]
    /\ Ret(c, "ok")
    /\ UNCHANGED <<wvars, qvars, pvars, rvars, ceff, lvars, dvars, sem, cmark>>

\* ---- the operations, grouped by the contexts that run them ---------------
\* the dispatch loop up to the registry lookup
WorkerLoop ==
    \/ WorkerCheck
    \/ WorkerStat
    \/ WorkerWait
    \/ \E n \in Queues : WorkerPop(n)
    \/ \E n \in {"video", "audio"} : WorkerLookup(n)

\* delivery to a Stream the lookup found, and of a packet to its Session
WorkerRoute == \E n \in {"video", "audio"} : WorkerSend(n)
WorkerSession == WorkerPacket

\* producer contexts P submitting to the queues Q frames addressed to the ids D
Submit(P, Q, D) ==
    \E p \in P :
        \/ \E n \in Q, d \in D \cup {NoStream} : SubmitPush(p, n, d)
        \/ SubmitUnlock(p)
        \/ SubmitNotify(p)

\* caller contexts C calling Start() and Stop()
StartStop(C) ==
    \E c \in C :
        \/ Return(c)
        \/ Start(c)
        \/ StopCheck(c)
        \/ StopSet(c)
        \/ StopNotify(c)
        \/ StopJoinable(c)
        \/ StopJoin(c)

\* caller contexts C calling OnCreateStream, OnDeleteStream and GetStream for the ids I
Registry(C, I) ==
    \E c \in C :
        \/ Return(c)
        \/ \E id \in I : CreateHook(c, id) \/ DeleteFind(c, id) \/ GetStreamCall(c, id)
        \/ CreateInsert(c)
        \/ DeleteHook(c)
        \/ DeleteErase(c)
        \/ DeleteStop(c)

\* ---- specifications ------------------------------------------------------
\* The whole program: every context, every operation. The specifications
\* below it are the same operations run by fewer contexts at a time.
Next ==
    \/ WorkerLoop
    \/ WorkerRoute
    \/ WorkerSession
    \/ Submit(Producers, Queues, StreamIds)
    \/ StartStop(Callers)
    \/ Registry(Callers, StreamIds)

Spec == Init /\ [][Next]_vars

\* Dispatch: two producers on the three queues against the loop, one caller
\* starting and stopping the worker. No stream is ever registered.
NextDispatch ==
    \/ WorkerLoop
    \/ WorkerSession
    \/ Submit(Producers, Queues, {7})
    \/ StartStop({"c1"})

SpecDispatch == Init /\ [][NextDispatch]_vars

\* Lifecycle: two callers starting and stopping the worker concurrently, one
\* producer keeping the loop busy.
NextLifecycle ==
    \/ WorkerLoop
    \/ Submit({"p1"}, {"video"}, {7})
    \/ StartStop(Callers)

SpecLifecycle == Init /\ [][NextLifecycle]_vars

\* Registry: two callers creating, deleting and looking up streams
\* concurrently; no worker is started.
NextRegistry == Registry(Callers, StreamIds)

SpecRegistry == Init /\ [][NextRegistry]_vars

\* Routing: the loop routes the frames of one producer to the registry while
\* one caller starts the worker and creates and deletes the stream they are
\* addressed to.
NextRouting ==
    \/ WorkerLoop
    \/ WorkerRoute
    \/ Submit({"p1"}, {"video", "audio"}, {7})
    \/ Registry({"c1"}, {7})
    \/ Start("c1")

SpecRouting == Init /\ [][NextRouting]_vars

\* Dispatch with the scheduling the program relies on: a thread that can take
\* a step eventually takes it. Nothing obliges a context to begin a call.
FairDispatch ==
    /\ WF_vars(WorkerLoop \/ WorkerSession)
    /\ \A p \in Producers : WF_vars(SubmitUnlock(p)) /\ WF_vars(SubmitNotify(p))
    /\ \A c \in Callers :
         WF_vars(StopSet(c) \/ StopNotify(c) \/ StopJoinable(c) \/ StopJoin(c))

LiveDispatch == SpecDispatch /\ FairDispatch

\* ==== the claims ==========================================================
IsPrefix(s, t) == Len(s) <= Len(t) /\ \A k \in 1..Len(s) : s[k] = t[k]

\* C1: for each of the three queues, whatever the interleaving of the submit
\* calls of several producers, the items the loop has dequeued are a prefix of
\* the items in the order they were appended, and what is left in the queue is
\* the rest of that order: nothing reordered, skipped or dequeued twice.
C1_FifoPrefix ==
    \A n \in Queues :
        /\ IsPrefix(dequeued[n], appended[n])
        /\ appended[n] = dequeued[n] \o q[n]

\* two items appended to one queue have both been dequeued
C1_Witness == \E n \in Queues : Len(dequeued[n]) >= 2 /\ q[n] = <<>>

\* C2: while the worker runs and no stop is requested, every queued item is
\* eventually dequeued, also after a burst of submits before the loop wakes;
\* the three queues eventually become empty.
StopRequested == flag \/ terminated
AllEmpty == \A n \in Queues : q[n] = <<>>
C2_EventuallyDrained ==
    /\ \A i \in 1..MaxItems :
         (i \in Items /\ InQueue(i) /\ WorkerLive /\ ~StopRequested)
             ~> (Dequeued(i) \/ StopRequested)
    /\ (WorkerLive /\ ~StopRequested) ~> (AllEmpty \/ StopRequested)

\* a burst: two items wait in one queue, both signalled, the loop not yet
\* woken, and no producer is in a submit call
C2_Witness ==
    /\ \E n \in Queues : Len(q[n]) >= 2
    /\ wpc = "wait" /\ sem >= 2 /\ ~flag
    /\ \A p \in Producers : ppc[p] = "idle"

\* C3 as stated: when Stop() returns, every item whose submit call had
\* returned before Stop() was called has been dequeued and routed, and the
\* queues are empty.
StopReturned(c) == cpc[c] = "ret" /\ cop[c] = "stop"
C3_NoLossAcrossStop ==
    \A c \in Callers :
        StopReturned(c) => \A i \in cmark[c] : Dequeued(i) /\ Routed(i)

\* C3 amended: Stop() does not drain. When Stop() returns, every item that had
\* been submitted before the call is in exactly one place: still in its queue,
\* in the worker's hand, or dequeued and routed; none has vanished.
C3_NoItemVanishes ==
    \A c \in Callers :
        StopReturned(c) =>
            \A i \in cmark[c] :
                /\ InQueue(i) \/ InHand(i) \/ Routed(i)
                /\ ~(InQueue(i) /\ Dequeued(i))
                /\ Dequeued(i) = (InHand(i) \/ Routed(i))
                /\ ~(InHand(i) /\ Routed(i))

\* Stop() has joined the worker and an item submitted before the call is
\* still in its queue
C3_Witness ==
    \E c \in Callers :
        /\ StopReturned(c) /\ wpc = "exited" /\ ~thr
        /\ \E i \in cmark[c] : InQueue(i)

\* C4 as stated: a GetStream(id) returns the stream of every OnCreateStream(id)
\* that succeeded and that no successful OnDeleteStream(id) has followed (or
\* not-found while such a delete is in progress), and not-found when there is
\* no such create.
Deleting(id) ==
    \E d \in Callers :
        cop[d] = "delete" /\ cid[d] = id
        /\ cpc[d] \in {"delete_hook", "delete_erase", "delete_stop"}
GetReturns(c) == cpc[c] = "idle" /\ cpc'[c] = "ret" /\ cop'[c] = "get"
C4_GetReturnsCreated ==
    [][\A c \in Callers :
          GetReturns(c) =>
              /\ \A st \in created[cid'[c]] :
                    cobj'[c] = st \/ (Deleting(cid'[c]) /\ cobj'[c] = NoStream)
              /\ created[cid'[c]] = {} => cobj'[c] = NoStream]_vars

\* C5 as stated: an OnCreateStream for an id that is already registered fails
\* and leaves the registered stream in place.
C5_DuplicateCreateFails ==
    [][\A c \in Callers :
          (cpc[c] = "create_insert" /\ cpc'[c] = "ret" /\ streams[cid[c]] # NoStream)
              => (cres'[c] = "fail" /\ streams' = streams)]_vars

\* C6: an OnCreateStream or OnDeleteStream that returns failure has neither
\* written the registry nor stopped a stream, in any of its steps, and the
\* registry and the stopped streams are as before in the step that fails; an
\* OnDeleteStream for an unregistered id fails without calling the hook.
Fails(c) == cpc[c] # "ret" /\ cpc'[c] = "ret" /\ cres'[c] = "fail"
C6_FailureLeavesRegistry ==
    [][/\ streams' # streams =>
            \E c \in Callers : cpc'[c] # cpc[c] /\ "write" \in ceff'[c]
       /\ stopped' # stopped =>
            \E c \in Callers : cpc'[c] # cpc[c] /\ "stop" \in ceff'[c]
       /\ \A c \in Callers :
            /\ Fails(c) =>
                 /\ cop'[c] \in {"create", "delete"}
                 /\ "write" \notin ceff'[c] /\ "stop" \notin ceff'[c]
                 /\ streams' = streams /\ stopped' = stopped
            /\ (cpc[c] = "idle" /\ cop'[c] = "delete" /\ streams[cid'[c]] = NoStream) =>
                 (Fails(c) /\ ceff'[c] = {})]_vars

\* an OnDeleteStream has failed in its hook and the stream is still registered,
\* never stopped
C6_Witness ==
    \E c \in Callers :
        /\ cpc[c] = "ret" /\ cop[c] = "delete" /\ cres[c] = "fail"
        /\ "hook" \in ceff[c]
        /\ streams[cid[c]] # NoStream /\ stopped = {}

\* C7: a frame whose stream id has no registry entry when the loop routes it
\* is delivered to no stream: the lookup step discards it, leaves the queues
\* alone and goes on to the next queue; a discarded frame is out of its queue,
\* was sent to nobody, and the loop is still running.
C7_MissingStreamDropped ==
    /\ [][\A n \in {"video", "audio"} :
            (wpc = GotPc(n) /\ wpc' # wpc /\ ~terminated' /\ GetStream(dest[whand]) = NoStream)
                => /\ delivered' = delivered
                   /\ dropped' = dropped \cup {whand}
                   /\ q' = q
                   /\ wpc' = AfterPc(n)]_vars
    /\ [](\A i \in dropped : Dequeued(i) /\ ~InQueue(i) /\ ~Sent(i) /\ ~InHand(i))
    /\ [](dropped # {} => WorkerLive)

\* frame F1 was delivered to the stream, the stream was then deleted, and the
\* later frame F2 of the same queue was discarded
C7_Witness ==
    \E i \in dropped, j \in Items :
        /\ j < i /\ QueueOf(j) = QueueOf(i) /\ Sent(j)
        /\ stopped # {} /\ WorkerLive

\* C8 as stated: a Start() on a running Application returns success without
\* spawning a second worker; there is never more than one worker context.
C8_StartIdempotent == aborted # "Start" /\ nworkers <= 1

\* C9 as stated: whenever a Stop() call returns, the worker has exited.
C9_StopReturnsAfterExit ==
    [][\A c \in Callers :
          (cpc[c] # "ret" /\ cpc'[c] = "ret" /\ cop'[c] = "stop") => ~WorkerLive']_vars

\* C10: a Stop() that has been called returns, with the worker exited,
\* wherever the loop is when the flag is set and whatever the producers do.
Stopping(c) == cop[c] = "stop" /\ cpc[c] \notin {"idle", "ret"}
C10_StopTerminates ==
    \A c \in Callers : Stopping(c) ~> (StopReturned(c) /\ ~WorkerLive)

\* the flag is set but the event not yet signalled while the loop, past its
\* flag test, is about to block on the event with nothing queued
C10_Witness ==
    \E c \in Callers :
        /\ cpc[c] = "stop_notify" /\ flag
        /\ wpc = "wait" /\ sem = 0 /\ AllEmpty

\* C11: calls made one after the other by one caller. A Stop() on an
\* Application whose worker is not running (fresh, or stopped before) returns
\* success and touches neither the worker, the thread handle, the queues nor
\* the registry; a Start() that follows spawns exactly one worker, with the
\* stop request cleared, and returns success; the worker leaves its loop only
\* while a Stop() call that has set the flag is in progress, never because of
\* an earlier one; and whenever a Stop() has returned, it returned success and
\* no worker is alive and no thread is left to join. So Stop(), Start(),
\* Stop() on a fresh Application succeeds three times and ends stopped.
StopPastSet(c) ==
    cop[c] = "stop" /\ cpc[c] \in {"stop_notify", "stop_joinable", "stop_join"}
C11_StopStartStop ==
    /\ [][/\ \A c \in Callers :
               /\ (cop'[c] = "stop" /\ cpc'[c] # cpc[c] /\ ~thr) =>
                     /\ wpc' = wpc /\ thr' = thr /\ nworkers' = nworkers
                     /\ q' = q /\ streams' = streams
                     /\ cpc'[c] = "ret" => cres'[c] = "ok"
               /\ (cpc[c] = "idle" /\ cop'[c] = "start") =>
                     /\ cpc'[c] = "ret" /\ cres'[c] = "ok"
                     /\ flag' = FALSE /\ wpc' = "check" /\ nworkers' = 1
          /\ (wpc = "check" /\ wpc' = "exited") => \E c \in Callers : StopPastSet(c)]_vars
    /\ [](\A c \in Callers :
             StopReturned(c) => (cres[c] = "ok" /\ ~WorkerLive /\ nworkers = 0 /\ ~thr))

\* Stop(), Start(), Stop() with no submit in between: both Stop() calls have
\* signalled the event, the one Start() lies between them, the last Stop() has
\* returned and the worker it joined has exited
C11_Witness ==
    \E c \in Callers :
        /\ StopReturned(c) /\ cres[c] = "ok"
        /\ nstarts = 1 /\ nitems = 0 /\ sem = 2
        /\ wpc = "exited" /\ ~thr /\ nworkers = 0

\* C12 as stated: in every OnDeleteStream that succeeds the hook has run and
\* agreed before the entry is erased, the erase comes before Stop(), and Stop()
\* is invoked on the stream the registry held for the id; while the hook runs
\* the caller holds no registry lock and GetStream(id) still returns that
\* stream.
InDeleteHook(c) == cop[c] = "delete" /\ cpc[c] = "delete_hook"
C12_DeleteOrder ==
    /\ [][\A c \in Callers :
            /\ (cpc[c] = "delete_erase" /\ cpc'[c] # cpc[c]) =>
                  /\ "hook" \in ceff[c] /\ "stop" \notin ceff[c]
                  /\ streams[cid[c]] = cobj[c] /\ streams'[cid[c]] = NoStream
            /\ (cpc[c] = "delete_stop" /\ cpc'[c] # cpc[c]) =>
                  /\ "hook" \in ceff[c] /\ "write" \in ceff[c]
                  /\ stopped' = stopped \cup {cobj[c]}
                  /\ cpc'[c] = "ret" /\ cres'[c] = "ok"
            /\ (cpc[c] # "ret" /\ cop'[c] = "delete" /\ cpc'[c] = "ret" /\ cres'[c] = "ok") =>
                  cpc[c] = "delete_stop"]_vars
    /\ [](\A c \in Callers :
             InDeleteHook(c) => (regLock # c /\ GetStream(cid[c]) = cobj[c]))

\* C13 as stated: when the loop is blocked on the event (in Wait(), nothing
\* pending), its preceding iteration removed nothing from any queue and the
\* three queues are empty.
Blocked == wpc = "wait" /\ ~CanWait(sem)
DrainedNothing == \A n \in Queues : wdrained[n] = 0
C13_WaitOnlyWhenIdle == Blocked => (DrainedNothing /\ AllEmpty)

\* C13 amended: the loop calls Wait() at the top of every iteration, whatever
\* the iteration before it removed. Whenever it is in Wait(), the items in the
\* queues are no more than the notifications pending plus the submit calls
\* that have pushed and not yet signalled; so when it is blocked there, a
\* signal is on its way for every queued item, and with no submit call in
\* progress the queues are empty.
QueuedCount == Len(q["video"]) + Len(q["audio"]) + Len(q["packet"])
Unsignalled == Cardinality({p \in Producers : ppc[p] \in {"pushed", "notify"}})
C13_BlockedOnlyUnsignalled ==
    /\ wpc = "wait" => QueuedCount <= sem + Unsignalled
    /\ Blocked => QueuedCount <= Unsignalled

\* the loop is blocked right after an iteration that removed an item, while
\* a producer that has pushed the next one has not signalled yet
C13_Witness ==
    /\ Blocked /\ ~DrainedNothing
    /\ \E p \in Producers : ppc[p] = "notify" /\ InQueue(pitem[p])

\* C14: within one iteration (from one Wait() to the next) the loop removes at
\* most one item from each queue. It polls the video, the audio and the packet
\* queue in that order, each once: polling a non-empty queue removes exactly
\* its head, whatever the other two hold, polling an empty one removes
\* nothing, and in either case the loop goes on to the next queue; only after
\* the packet queue does it return to the flag test.
PollOrder == <<"video", "audio", "packet">>
PollAfter(k) == IF k < 3 THEN PopPc(PollOrder[k + 1]) ELSE "check"
RoutePcs(n) ==
    CASE n = "video" -> {"getV", "sendV"} [] n = "audio" -> {"getA", "sendA"} [] OTHER -> {"recvP"}
C14_OnePerQueuePerIteration ==
    /\ [](\A n \in Queues : wdrained[n] <= 1)
    /\ [][\A k \in 1..3 :
            LET n == PollOrder[k] IN
            /\ (wpc = PopPc(n) /\ wpc' # wpc /\ ~terminated') =>
                  IF q[n] # <<>>
                  THEN /\ q' = [q EXCEPT ![n] = Tail(q[n])]
                       /\ whand' = Head(q[n])
                       /\ wdrained' = [wdrained EXCEPT ![n] = 1]
                       /\ wpc' \in RoutePcs(n)
                  ELSE /\ q' = q /\ wdrained' = wdrained
                       /\ wpc' = PollAfter(k)
            /\ (wpc \in RoutePcs(n) /\ wpc' # wpc /\ ~terminated') =>
                  (q' = q /\ wpc' \in RoutePcs(n) \cup {PollAfter(k)})
            /\ (wpc = "wait" /\ wpc' # wpc /\ ~terminated') => wpc' = PopPc(PollOrder[1])]_vars

\* one iteration has removed an item from two different queues
C14_Witness ==
    /\ wpc = "check"
    /\ Cardinality({n \in Queues : wdrained[n] = 1}) >= 2

\* C15: a submit call goes through three steps in this order and through each
\* once: it appends its item to the queue while it takes the queue's lock, it
\* releases the lock, it signals the event once and returns. The event is not
\* signalled in the first two steps, the signalling producer holds no queue
\* lock, and at the signal its item has already been appended (it is in the
\* queue unless the loop has taken it meanwhile). Nothing but a submit call's
\* last step or Stop() raises the event.
Holds(p) == {n \in Queues : qlock[n] = p}
C15_EnqueueThenSignal ==
    /\ [][~terminated' =>
          /\ \A p \in Producers :
               ppc'[p] # ppc[p] =>
                  \/ /\ ppc[p] = "idle" /\ ppc'[p] = "pushed"
                     /\ sem' = sem
                     /\ \E n \in Queues :
                          /\ qlock[n] = NoOne /\ qlock'[n] = p
                          /\ q'[n] = Append(q[n], pitem'[p])
                  \/ /\ ppc[p] = "pushed" /\ ppc'[p] = "notify"
                     /\ sem' = sem /\ q' = q
                     /\ Holds(p) # {} /\ \A n \in Queues : qlock'[n] # p
                  \/ /\ ppc[p] = "notify" /\ ppc'[p] = "idle"
                     /\ sem' = sem + 1 /\ q' = q
                     /\ Holds(p) = {}
                     /\ InQueue(pitem[p]) \/ Dequeued(pitem[p])
          /\ sem' > sem =>
               \/ \E p \in Producers : ppc[p] = "notify" /\ ppc'[p] = "idle"
               \/ \E c \in Callers : cpc[c] = "stop_notify" /\ cpc'[c] # cpc[c]]_vars
    /\ [](\A p \in Producers : Holds(p) # {} => ppc[p] = "pushed")

\* the loop, woken by the signal of the only submit so far, is about to poll
\* the queue that holds its item
C15_Witness ==
    /\ nitems = 1 /\ sem = 0 /\ \A p \in Producers : ppc[p] = "idle"
    /\ \E n \in Queues : wpc = PopPc(n) /\ q[n] = <<1>>

\* C16 as stated: no SendVideoFrame / SendAudioFrame is made on a stream on
\* which OnDeleteStream has already invoked Stop().
C16_NoSendAfterStop ==
    [][(delivered' # delivered /\ ~terminated') => wstream \notin stopped]_vars

\* C16 amended: no lookup made after the erase observes the stream. A stream
\* on which Stop() was invoked is not in the registry, and a lookup hands the
\* loop the stream registered for the frame's id at that moment, never a
\* stopped one. A delivery goes to the handle the lookup returned, so a
\* stopped stream is delivered to only through a handle obtained before it
\* was erased.
C16_NoLookupAfterErase ==
    /\ [](\A id \in StreamIds : GetStream(id) # NoStream => GetStream(id) \notin stopped)
    /\ [][/\ \A n \in {"video", "audio"} :
               (wpc = GotPc(n) /\ wpc' # wpc /\ ~terminated') =>
                   /\ wstream' = GetStream(dest[whand])
                   /\ wstream' \notin stopped
                   /\ delivered' = delivered
          /\ (delivered' # delivered /\ ~terminated') =>
               /\ wpc \in {"sendV", "sendA"} /\ wstream # NoStream
               /\ delivered' = delivered \cup {<<wstream, whand>>}]_vars

\* the loop has looked the stream up and is about to deliver a frame to it,
\* and OnDeleteStream has meanwhile erased and stopped that stream
C16_Witness ==
    /\ wpc \in {"sendV", "sendA"}
    /\ wstream \in stopped
    /\ \A id \in StreamIds : GetStream(id) # wstream

\* C17 as stated: once every OnCreateStream / OnDeleteStream call has
\* returned, each stream that was placed in the registry is either still
\* registered or has had Stop() invoked, never both and never neither; and the
\* entry an OnDeleteStream erases is the stream it goes on to stop.
Registered == {streams[id] : id \in StreamIds} \ {NoStream}
Quiescent == \A c \in Callers : cpc[c] \in {"idle", "ret"}
C17_DroppedIffStopped ==
    /\ [](Quiescent => \A st \in 1..nobjs : (st \in Registered) # (st \in stopped))
    /\ [][\A c \in Callers :
            (cpc[c] = "delete_erase" /\ cpc'[c] # cpc[c]) => streams[cid[c]] = cobj[c]]_vars

\* C18 as stated: of the OnDeleteStream calls that run concurrently for one
\* registered stream, at most one invokes the deletion hook, at most one
\* invokes Stop() on the stream, and at most one returns success.
HookedFor(d, st) == cop[d] = "delete" /\ cobj[d] = st /\ "hook" \in ceff[d]
C18_DeleteOnce ==
    [][\A c \in Callers :
         /\ (cpc[c] = "delete_hook" /\ cpc'[c] # cpc[c]) =>
               /\ cobj[c] \notin stopped
               /\ \A d \in Callers \ {c} : ~HookedFor(d, cobj[c])
         /\ (cpc[c] = "delete_stop" /\ cpc'[c] # cpc[c]) => cobj[c] \notin stopped]_vars

\* C19 as stated: whenever the core calls into collaborator code (the
\* creation hook, the deletion hook, Stream.Stop(), a Stream's send operation,
\* a Session's packet operation) the calling context holds neither the
\* registry lock nor a queue lock.
LockFree(x) == regLock # x /\ \A n \in Queues : qlock[n] # x
C19_NoLockAcrossCalls ==
    [][~terminated' =>
         /\ \A c \in Callers :
              /\ (cpc[c] = "idle" /\ cop'[c] = "create") => LockFree(c)
              /\ (cpc[c] = "delete_hook" /\ cpc'[c] # cpc[c]) => LockFree(c)
              /\ (cpc[c] = "delete_stop" /\ cpc'[c] # cpc[c]) => LockFree(c)
         /\ (delivered' # delivered \/ received' # received) => LockFree("worker")]_vars

\* C20 as stated: the loop never reads a queue while a producer is inside its
\* push on that queue: when the loop reads the three queue depths for the
\* diagnostic snapshot, no producer holds the lock of any of the three queues.
InPush(p, n) == qlock[n] = p /\ ppc[p] = "pushed"
C20_SnapshotUnderLock ==
    [][(wpc = "stat" /\ wpc' # wpc /\ ~terminated') =>
          \A n \in Queues : \A p \in Producers : ~InPush(p, n)]_vars
====
